---- MODULE Spec2Model ----
(***************************************************************************)
(* Model of the interview engine (src/interview_engine.py): the question   *)
(* parser _clean_list_from_text, generate_questions,                       *)
(* get_feedback_on_answer and the InterviewSession iterator; and of the     *)
(* application that drives them (src/app_tk.py): its handlers on the main  *)
(* thread, its worker threads and the callbacks they schedule.             *)
(*                                                                         *)
(* A Python str is modelled as a sequence of atoms.  An atom is one        *)
(* character ("1", ".", " ", "\n"), or a run of characters written as one  *)
(* string ("Tell me about yourself.") that begins with a letter, ends with *)
(* a non-blank character and holds no line break, so that no operation of  *)
(* the engine (strip, lstrip, splitlines, isdigit, ==) looks inside it.    *)
(* A list of str is a sequence of such sequences.  A value a method        *)
(* returns is a record [kind, val], kind "None", "str", "bool" or "list".  *)
(***************************************************************************)
EXTENDS Integers, Sequences, FiniteSets, TLC

VARIABLES MODEL, job_title, n_questions, _questions, _index,
          op, before, ret, exc, results, gq, gqPrev, fb, cl,
          job_entry, session, q_blocks, status_var, main, workers, afterQ

\* the application: the job title entry, self.session, self.q_blocks, the
\* status line, what the main thread is doing, the worker threads running
\* and the callbacks scheduled with after(0, ...)
appVars == <<job_entry, session, q_blocks, status_var, main, workers, afterQ>>

vars == <<MODEL, job_title, n_questions, _questions, _index,
          op, before, ret, exc, results, gq, gqPrev, fb, cl, appVars>>

\* MODEL is None: no backend is configured
None == "None"

\* ---------------------------------------------------------------- bounds
\* largest n_questions argument tried (the fallback list has 10 entries)
MaxN == 12
\* calls of next_question() made after the session is exhausted
MaxPastEnd == 2
\* most lines in a backend answer
MaxLines == 2
\* longest text given to the parser, in atoms
MaxTextLen == 4
\* longest answer body, and most blanks on either side of it
MaxCore == 31
MaxPad == 2

\* ------------------------------------------------------- Python str helpers
Min(a, b) == IF a < b THEN a ELSE b
Max(a, b) == IF a > b THEN a ELSE b

AsciiDigits == {"0", "1", "2", "3", "4", "5", "6", "7", "8", "9"}
\* characters for which str.isdigit() is true and that are no ASCII digit:
\* CIRCLED DIGIT ONE, SUPERSCRIPT TWO (each one character)
NonAsciiDigits == {"U+2460", "U+00B2"}
\* str.strip() with no argument removes whitespace
Whitespace == {" ", "\t", "\n", "\r"}
\* the argument of ln.lstrip("0123456789. )-*\t")
LStripChars == AsciiDigits \cup {".", " ", ")", "-", "*", "\t"}
LineBreaks == {"\n", "\r"}

isdigit(c) == c \in AsciiDigits \cup NonAsciiDigits

RECURSIVE lstrip(_, _)
lstrip(s, chars) ==
    IF s # <<>> /\ Head(s) \in chars THEN lstrip(Tail(s), chars) ELSE s

RECURSIVE rstrip(_, _)
rstrip(s, chars) ==
    IF s # <<>> /\ s[Len(s)] \in chars THEN rstrip(SubSeq(s, 1, Len(s) - 1), chars) ELSE s

strip(s) == rstrip(lstrip(s, Whitespace), Whitespace)

\* text.splitlines(): "\r\n" is one line break; no empty last line
RECURSIVE SplitFrom(_, _, _)
SplitFrom(t, i, cur) ==
    IF i > Len(t) THEN (IF cur = <<>> THEN <<>> ELSE <<cur>>)
    ELSE IF t[i] = "\r" /\ i < Len(t) /\ t[i + 1] = "\n"
         THEN <<cur>> \o SplitFrom(t, i + 2, <<>>)
    ELSE IF t[i] \in LineBreaks THEN <<cur>> \o SplitFrom(t, i + 1, <<>>)
    ELSE SplitFrom(t, i + 1, Append(cur, t[i]))

splitlines(t) == SplitFrom(t, 1, <<>>)

\* sep.join(lines)
RECURSIVE join(_, _)
join(sep, lines) ==
    IF lines = <<>> THEN <<>>
    ELSE IF Len(lines) = 1 THEN lines[1]
    ELSE lines[1] \o sep \o join(sep, Tail(lines))

\* s[:n]
SliceTo(s, n) ==
    IF n >= 0 THEN SubSeq(s, 1, Min(n, Len(s)))
    ELSE SubSeq(s, 1, Max(0, Len(s) + n))

\* x in s, for a list s
In(x, s) == \E i \in 1..Len(s) : s[i] = x

NonEmpty(s) == s # <<>>

\* [ln.strip() for ln in text.splitlines() if ln.strip()]
StrippedLines(t) ==
    LET ls == splitlines(t)
        st == [i \in 1..Len(ls) |-> strip(ls[i])]
    IN  SelectSeq(st, NonEmpty)

\* ------------------------------------------------------------ fallback data
FALLBACK_QUESTIONS == <<
    <<"Why should we hire you?">>,
    <<"Tell me about yourself.">>,
    <<"What are your strengths?">>,
    <<"What are your weaknesses?">>,
    <<"Where do you see yourself in 5 years?">>,
    <<"Why do you want to work here?">>,
    <<"Tell me about a challenge you faced at work.">>,
    <<"How do you handle pressure?">>,
    <<"What motivates you?">>,
    <<"Do you have any questions for us?">> >>

\* ------------------------------------------------------------------ parser
\* The while loop of _clean_list_from_text on one line.  The loop body is a
\* function of ln alone, so an iteration that leaves ln as it was repeats
\* for ever: hang is TRUE and the call never returns.
RECURSIVE StripMarkers(_)
StripMarkers(ln) ==
    IF ln # <<>> /\ (isdigit(ln[1]) \/ ln[1] \in {"-", "*"})
    THEN LET nxt == strip(lstrip(ln, LStripChars))
         IN  IF nxt = ln THEN [hang |-> TRUE, ln |-> ln] ELSE StripMarkers(nxt)
    ELSE [hang |-> FALSE, ln |-> ln]

\* status "return": val is the list returned; status "hang": no return
_clean_list_from_text(text) ==
    LET lines == StrippedLines(text)
        done == [i \in 1..Len(lines) |-> StripMarkers(lines[i])]
        lns == [i \in 1..Len(lines) |-> done[i].ln]
    IN  IF \E i \in 1..Len(lines) : done[i].hang
        THEN [status |-> "hang", val |-> <<>>]
        ELSE [status |-> "return", val |-> SelectSeq(lns, NonEmpty)]

\* ---------------------------------------------------------------- backend
\* What MODEL.generate_content(prompt) does in one call, read through
\* (resp.text or "").strip(): kind "text" answers with text, kind "none"
\* answers with resp.text = None, kind "raise" raises Exception(text).
Answer(kind, text) == [kind |-> kind, text |-> text]
NoCall == Answer("nocall", <<>>)

\* -------------------------------------------------------- generate_questions
\* FALLBACK_QUESTIONS[:n_questions - 1]: one entry short
FallbackSlice_OneShort(n) == SliceTo(FALLBACK_QUESTIONS, n - 1)

\* line 86: FALLBACK_QUESTIONS[:n_questions]
FallbackSlice(n) == SliceTo(FALLBACK_QUESTIONS, n)

\* padding with the whole fallback list, duplicates of the answer included
PadWithFallback_NoSkip(questions, n) ==
    IF Len(questions) < n
    THEN SliceTo(SliceTo(questions \o FALLBACK_QUESTIONS, n), n)
    ELSE SliceTo(questions, n)

\* the fewer-than-requested answer returned as it is, without padding
PadWithFallback_NoPad(questions, n) == SliceTo(questions, n)

\* lines 99-102: pad with the fallback questions not yet present, cut to n
PadWithFallback(questions, n) ==
    IF Len(questions) < n
    THEN LET notIn(q) == ~In(q, questions)
         IN  SliceTo(SliceTo(questions \o SelectSeq(FALLBACK_QUESTIONS, notIn), n), n)
    ELSE SliceTo(questions, n)

\* the error text, then FALLBACK_QUESTIONS[:n]: one entry too many
ErrorResult_NoRoomForError(e, n) ==
    << <<"Error generating questions: ">> \o e >> \o SliceTo(FALLBACK_QUESTIONS, Max(0, n))

\* line 105: the error as text, then FALLBACK_QUESTIONS[: max(0, n-1)]
ErrorResult(e, n) ==
    << <<"Error generating questions: ">> \o e >> \o SliceTo(FALLBACK_QUESTIONS, Max(0, n - 1))

\* generate_questions(job_title, n_questions) with MODEL = model, the backend
\* behaving as b in this call
generate_questions(model, title, n, b) ==
    IF title = <<>> THEN [status |-> "return", val |-> << <<"Please provide a job title.">> >>]
    ELSE IF model = None THEN [status |-> "return", val |-> FallbackSlice(n)]
    ELSE IF b.kind = "raise" THEN [status |-> "return", val |-> ErrorResult(b.text, n)]
    ELSE LET text == strip(IF b.kind = "none" THEN <<>> ELSE b.text)
             c == _clean_list_from_text(text)
         IN  IF c.status = "hang" THEN c
             ELSE [status |-> "return", val |-> PadWithFallback(c.val, n)]

\* ---------------------------------------------------- get_feedback_on_answer
\* the heuristic measuring the answer as given, blanks around it included
HeuristicFeedback_RawLength(answer) ==
    LET ans_len == Len(answer)
        feedback_lines ==
            IF ans_len < 30
            THEN << <<"1", ")", " ", "Score: 40/100">>,
                    <<"2", ")", " ", "Strength: You tried to answer quickly.">>,
                    <<"3", ")", " ", "Improve: Add one concrete example (what you did).">>,
                    <<"4", ")", " ", "Improve: Add the result (what changed because of your action).">>,
                    <<"5", ")", " ", "Model answer (example): I led X project where I did Y and achieved Z.">> >>
            ELSE << <<"1", ")", " ", "Score: 75/100">>,
                    <<"2", ")", " ", "Strength: Clear structure and some example included.">>,
                    <<"3", ")", " ", "Improve: Be more specific about numbers or results.">>,
                    <<"4", ")", " ", "Improve: Add one short sentence about learning from the experience.">>,
                    <<"5", ")", " ", "Model answer (example): I improved X by doing Y which increased Z by 20%.">> >>
    IN  join(<<"\n">>, feedback_lines)

\* lines 119-133: the heuristic of the branch MODEL is None
HeuristicFeedback(answer) ==
    LET ans_len == Len(strip(answer))
        feedback_lines ==
            IF ans_len < 30
            THEN << <<"1", ")", " ", "Score: 40/100">>,
                    <<"2", ")", " ", "Strength: You tried to answer quickly.">>,
                    <<"3", ")", " ", "Improve: Add one concrete example (what you did).">>,
                    <<"4", ")", " ", "Improve: Add the result (what changed because of your action).">>,
                    <<"5", ")", " ", "Model answer (example): I led X project where I did Y and achieved Z.">> >>
            ELSE << <<"1", ")", " ", "Score: 75/100">>,
                    <<"2", ")", " ", "Strength: Clear structure and some example included.">>,
                    <<"3", ")", " ", "Improve: Be more specific about numbers or results.">>,
                    <<"4", ")", " ", "Improve: Add one short sentence about learning from the experience.">>,
                    <<"5", ")", " ", "Model answer (example): I improved X by doing Y which increased Z by 20%.">> >>
    IN  join(<<"\n">>, feedback_lines)

\* get_feedback_on_answer(question, answer) with MODEL = model, the backend
\* behaving as b in this call
get_feedback_on_answer(model, question, answer, b) ==
    IF answer = <<>> \/ strip(answer) = <<>>
    THEN <<"No answer provided. Please write your response before requesting feedback.">>
    ELSE IF model = None THEN HeuristicFeedback(answer)
    ELSE IF b.kind = "raise" THEN <<"Error generating feedback: ">> \o b.text
    ELSE LET text == strip(IF b.kind = "none" THEN <<>> ELSE b.text)
             lines == StrippedLines(text)
         IN  IF lines = <<>> THEN <<"No feedback returned. Try again.">>
             ELSE join(<<"\n">>, lines)

\* ------------------------------------------------------------------ inputs
Titles == {<<>>, <<"Data Scientist">>, <<"Backend Engineer">>}
NValues == (0 - 1)..MaxN

\* lines a backend may answer with: a fallback question numbered, a question
\* of its own bulleted, a blank line, a line numbered with a circled digit
AnswerLines == {
    <<"1", ".", " ", "Why should we hire you?">>,
    <<"-", " ", "Describe a project you led.">>,
    <<" ">>,
    <<"U+2460", " ", "What is a p-value?">> }

RECURSIVE LinesUpTo(_)
LinesUpTo(k) ==
    IF k = 0 THEN {<<>>}
    ELSE LET shorter == LinesUpTo(k - 1)
         IN  shorter \cup {Append(ls, l) : ls \in shorter, l \in AnswerLines}

AnswerTexts == {join(<<"\n">>, ls) : ls \in LinesUpTo(MaxLines)}

ErrorTexts == {<<"API key not valid.">>, <<"503 ", "Service Unavailable">>}

BackendAnswers ==
    {Answer("text", t) : t \in AnswerTexts} \cup {Answer("none", <<>>)}
        \cup {Answer("raise", e) : e \in ErrorTexts}

\* MODEL is None: no call reaches the backend
Behaviours(model) == IF model = None THEN {NoCall} ELSE BackendAnswers

\* --------------------------------------------------------- returned values
NoneVal == [kind |-> "None", val |-> <<>>]
Str(t) == [kind |-> "str", val |-> t]
Bool(b) == [kind |-> "bool", val |-> b]
List(l) == [kind |-> "list", val |-> l]
Raised == [kind |-> "raise", val |-> <<>>]

\* s[i] of a Python list: IndexError outside -len..len-1
PyIndex(s, i) ==
    IF 0 <= i /\ i < Len(s) THEN [ok |-> TRUE, val |-> s[i + 1]]
    ELSE IF i < 0 /\ 0 - Len(s) <= i THEN [ok |-> TRUE, val |-> s[Len(s) + i + 1]]
    ELSE [ok |-> FALSE, val |-> <<>>]

\* f"Question {i}: {q}"
Label(i, q) == <<"Question ", ToString(i), ": ">> \o q

\* ------------------------------------------------------- InterviewSession
NoGen == [called |-> FALSE, title |-> <<>>, n |-> 0, b |-> NoCall,
          out |-> [status |-> "none", val |-> <<>>]]
NoFb == [called |-> FALSE, question |-> <<>>, answer |-> <<>>, b |-> NoCall, out |-> <<>>]
NoCl == [called |-> FALSE, text |-> <<>>, out |-> [status |-> "none", val |-> <<>>]]

\* self.session = None
NoSess == [live |-> FALSE, job_title |-> <<>>, n_questions |-> 0, _questions |-> <<>>, _index |-> 0]

\* no InterviewApp is running
NoApp ==
    /\ job_entry = <<>> /\ session = NoSess /\ q_blocks = <<>> /\ status_var = <<>>
    /\ main = "none" /\ workers = <<>> /\ afterQ = <<>>

\* InterviewSession(job_title, n_questions).__init__; a constructor whose
\* generate_questions call never returns makes no session
SessionInit(title, n, b) ==
    LET g == generate_questions(MODEL, title, Max(1, n), b)
    IN  /\ g.status = "return"
        /\ job_title = title
        /\ n_questions = Max(1, n)
        /\ _questions = g.val
        /\ _index = 0

Init ==
    /\ MODEL \in {None, "model"}
    /\ \E title \in Titles, n \in NValues : \E b \in Behaviours(MODEL) : SessionInit(title, n, b)
    /\ op = "init" /\ before = 0 /\ ret = NoneVal /\ exc = None /\ results = <<>>
    /\ gq = NoGen /\ gqPrev = NoGen /\ fb = NoFb /\ cl = NoCl
    /\ NoApp

\* the call history kept for the properties: op is the method called last,
\* before the cursor as that call found it, ret what it returned, exc the
\* exception it raised, results what the next_question() calls since
\* construction or the last reset() returned
Called(name, r, e) ==
    /\ op' = name /\ before' = _index /\ ret' = r /\ exc' = e
    /\ UNCHANGED <<MODEL, job_title, n_questions, _questions, gq, gqPrev, fb, cl, appVars>>

\* next_question() testing _index > len(...) where the code tests >=
next_question_EndTestOffByOne ==
    /\ _index < Len(_questions) \/ Len(results) < Len(_questions) + MaxPastEnd
    /\ IF _index > Len(_questions)
       THEN /\ _index' = _index
            /\ Called("next_question", NoneVal, None)
       ELSE LET q == PyIndex(_questions, _index)
            IN  IF q.ok
                THEN /\ _index' = _index + 1
                     /\ Called("next_question", Str(Label(_index + 1, q.val)), None)
                ELSE /\ _index' = _index
                     /\ Called("next_question", Raised, "IndexError")
    /\ results' = Append(results, ret')

\* next_question() formatting the label before it advances the cursor
next_question_LabelBeforeAdvance ==
    /\ _index < Len(_questions) \/ Len(results) < Len(_questions) + MaxPastEnd
    /\ IF _index >= Len(_questions)
       THEN /\ _index' = _index
            /\ Called("next_question", NoneVal, None)
       ELSE LET q == PyIndex(_questions, _index)
            IN  IF q.ok
                THEN /\ _index' = _index + 1
                     /\ Called("next_question", Str(Label(_index, q.val)), None)
                ELSE /\ _index' = _index
                     /\ Called("next_question", Raised, "IndexError")
    /\ results' = Append(results, ret')

\* (first conjunct: at most MaxPastEnd calls are made on an exhausted session)
next_question ==
    /\ _index < Len(_questions) \/ Len(results) < Len(_questions) + MaxPastEnd
    /\ IF _index >= Len(_questions)
       THEN /\ _index' = _index
            /\ Called("next_question", NoneVal, None)
       ELSE LET q == PyIndex(_questions, _index)
            IN  IF q.ok
                THEN /\ _index' = _index + 1
                     /\ Called("next_question", Str(Label(_index + 1, q.val)), None)
                ELSE /\ _index' = _index
                     /\ Called("next_question", Raised, "IndexError")
    /\ results' = Append(results, ret')

\* peek_current() reading at the cursor where the code reads one before it
peek_current_AtCursor ==
    /\ IF _index = 0
       THEN Called("peek_current", NoneVal, None)
       ELSE LET idx == _index
                q == PyIndex(_questions, idx)
            IN  IF q.ok
                THEN Called("peek_current", Str(Label(idx + 1, q.val)), None)
                ELSE Called("peek_current", Raised, "IndexError")
    /\ UNCHANGED <<_index, results>>

peek_current ==
    /\ IF _index = 0
       THEN Called("peek_current", NoneVal, None)
       ELSE LET idx == _index - 1
                q == PyIndex(_questions, idx)
            IN  IF q.ok
                THEN Called("peek_current", Str(Label(idx + 1, q.val)), None)
                ELSE Called("peek_current", Raised, "IndexError")
    /\ UNCHANGED <<_index, results>>

has_next ==
    /\ Called("has_next", Bool(_index < Len(_questions)), None)
    /\ UNCHANGED <<_index, results>>

\* reset() going back to the question shown last, not to the start
reset_ToCurrent ==
    /\ _index' = Max(0, _index - 1)
    /\ Called("reset", NoneVal, None)
    /\ results' = <<>>

reset ==
    /\ _index' = 0
    /\ Called("reset", NoneVal, None)
    /\ results' = <<>>

all_questions ==
    /\ Called("all_questions", List(_questions), None)
    /\ UNCHANGED <<_index, results>>

Next == next_question \/ peek_current \/ has_next \/ reset \/ all_questions

Spec == Init /\ [][Next]_vars

\* --------------------------------------------- calls of the module functions
\* no InterviewSession has been made
NoSession ==
    /\ job_title = <<>> /\ n_questions = 0 /\ _questions = <<>> /\ _index = 0
    /\ op = "idle" /\ before = 0 /\ ret = NoneVal /\ exc = None /\ results = <<>>

sessionVars == <<job_title, n_questions, _questions, _index, op, before, ret, exc, results>>

\* the list an InterviewSession made with these arguments holds
SessionQuestions(model, title, n, b) == generate_questions(model, title, Max(1, n), b)

\* generate_questions(title, n) is about to be called, the backend about to
\* behave as b
GenArgs(title, n, b) ==
    [called |-> FALSE, title |-> title, n |-> n, b |-> b,
     out |-> [status |-> "none", val |-> <<>>]]

GenCall(g) == [g EXCEPT !.called = TRUE, !.out = generate_questions(MODEL, g.title, g.n, g.b)]

InitGenerate ==
    /\ MODEL \in {None, "model"}
    /\ NoSession
    /\ \E title \in Titles, n \in NValues : \E b \in Behaviours(MODEL) :
           gq = GenArgs(title, n, b)
    /\ gqPrev = NoGen /\ fb = NoFb /\ cl = NoCl
    /\ NoApp

\* the call generate_questions(title, n)
Generate ==
    /\ ~gq.called
    /\ gq' = GenCall(gq)
    /\ UNCHANGED <<MODEL, sessionVars, gqPrev, fb, cl, appVars>>

\* a second call with the same n, any title, the backend behaving as it may
GenerateAgain ==
    /\ gq.called /\ ~gqPrev.called
    /\ \E title \in Titles : \E b \in Behaviours(MODEL) :
           gq' = GenCall(GenArgs(title, gq.n, b))
    /\ gqPrev' = gq
    /\ UNCHANGED <<MODEL, sessionVars, fb, cl, appVars>>

NextGenerate == Generate \/ GenerateAgain

SpecGenerate == InitGenerate /\ [][NextGenerate]_vars

\* answers: blanks, a body of letters (one blank inside it or none), blanks
Spaces(k) == [i \in 1..k |-> " "]
Body(c, inner) == [i \in 1..c |-> IF inner /\ i = 2 /\ c > 2 THEN " " ELSE "a"]
Answers ==
    {Spaces(l) \o Body(c, inner) \o Spaces(t) :
        l \in 0..MaxPad, t \in 0..MaxPad, c \in 0..MaxCore, inner \in BOOLEAN}
Questions == {<<"Why should we hire you?">>, <<"What motivates you?">>}

InitFeedback ==
    /\ MODEL \in {None, "model"}
    /\ NoSession
    /\ \E q \in Questions, a \in Answers : \E b \in Behaviours(MODEL) :
           fb = [called |-> FALSE, question |-> q, answer |-> a, b |-> b, out |-> <<>>]
    /\ gq = NoGen /\ gqPrev = NoGen /\ cl = NoCl
    /\ NoApp

\* the call get_feedback_on_answer(question, answer)
Feedback ==
    /\ ~fb.called
    /\ fb' = [fb EXCEPT !.called = TRUE,
                        !.out = get_feedback_on_answer(MODEL, fb.question, fb.answer, fb.b)]
    /\ UNCHANGED <<MODEL, sessionVars, gq, gqPrev, cl, appVars>>

NextFeedback == Feedback

SpecFeedback == InitFeedback /\ [][NextFeedback]_vars

\* texts for the parser: every sequence of at most MaxTextLen of these atoms
ParserAtoms == {"1", ".", ")", "-", " ", "\t", "\n", "U+2460", "Why should we hire you?"}

RECURSIVE TextsUpTo(_)
TextsUpTo(k) ==
    IF k = 0 THEN {<<>>}
    ELSE LET shorter == TextsUpTo(k - 1)
         IN  shorter \cup {Append(t, a) : t \in shorter, a \in ParserAtoms}

InitClean ==
    /\ MODEL = "model"
    /\ NoSession
    /\ \E text \in TextsUpTo(MaxTextLen) :
           cl = [called |-> FALSE, text |-> text, out |-> [status |-> "none", val |-> <<>>]]
    /\ gq = NoGen /\ gqPrev = NoGen /\ fb = NoFb
    /\ NoApp

\* _clean_list_from_text(text) is called
CleanCall ==
    /\ ~cl.called
    /\ cl' = [cl EXCEPT !.called = TRUE, !.out = [status |-> "running", val |-> <<>>]]
    /\ UNCHANGED <<MODEL, sessionVars, gq, gqPrev, fb, appVars>>

\* and returns, when its loops end
CleanReturn ==
    /\ cl.called /\ cl.out.status = "running"
    /\ _clean_list_from_text(cl.text).status = "return"
    /\ cl' = [cl EXCEPT !.out = _clean_list_from_text(cl.text)]
    /\ UNCHANGED <<MODEL, sessionVars, gq, gqPrev, fb, appVars>>

NextClean == CleanCall \/ CleanReturn

SpecClean == InitClean /\ [][NextClean]_vars

\* ====================================================== the application
\* src/app_tk.py: InterviewApp and its QuestionBlocks.  The handlers run on
\* the main thread one at a time; a worker thread runs beside them and hands
\* its result back with after(0, callback).

\* n_questions=10, as the application asks for them
AppN == 10

\* what the user can have typed in the job title entry
JobEntries == {<<>>, <<"Data Scientist">>, <<" ", "Backend Engineer">>}

\* what the user can have typed in an answer box
TypedAnswers == {<<"a", "a", "a", " ">>}

\* feedback is asked for on the first MaxFbBlock blocks
MaxFbBlock == 1

\* worker threads running plus callbacks waiting, at most
MaxPending == 2

\* questions one session is asked for with Next Question, at most
MaxServed == 2

\* what the backend can answer to the application's requests
AppAnswers ==
    { Answer("text", join(<<"\n">>, << <<"1", ".", " ", "Why should we hire you?">>,
                                       <<"-", " ", "Describe a project you led.">> >>)),
      Answer("text", <<"U+2460", " ", "What is a p-value?">>),
      Answer("raise", <<"API key not valid.">>) }

AppBehaviours(model) == IF model = None THEN {NoCall} ELSE AppAnswers

\* InterviewSession(job, n_questions=10), the backend behaving as b
NewSession(job, g) ==
    [live |-> TRUE, job_title |-> job, n_questions |-> Max(1, AppN),
     _questions |-> g.val, _index |-> 0]

\* self.session.next_question(): the value returned and the session after
SessionNext(s) ==
    IF s._index >= Len(s._questions)
    THEN [q |-> <<>>, s |-> s]
    ELSE [q |-> Label(s._index + 1, s._questions[s._index + 1]),
          s |-> [s EXCEPT !._index = s._index + 1]]

\* int(label.replace("Question", "").strip()) of "Question N: text"
LabelIndex(q) == CHOOSE k \in 1..AppN : ToString(k) = q[2]

\* q.split(":", 1)[1].strip(): what follows the first colon, which is the
\* one the label ends with
LabelText(q) == strip(<<" ">> \o SubSeq(q, 4, Len(q)))

\* QuestionBlock(parent, q_index, q_text)
QuestionBlock(q_index, q_text) ==
    [q_index |-> q_index, q_text |-> q_text, answer_box |-> <<>>,
     fb_btn |-> "normal", feedback_area |-> <<>>]

\* InterviewApp(): the window as it opens
InitApp ==
    /\ MODEL \in {None, "model"}
    /\ NoSession
    /\ gq = NoGen /\ gqPrev = NoGen /\ fb = NoFb /\ cl = NoCl
    /\ job_entry = <<"Data Scientist">>
    /\ session = NoSess
    /\ q_blocks = <<>>
    /\ status_var = <<"Ready">>
    /\ main = "idle" /\ workers = <<>> /\ afterQ = <<>>

engineVars == <<MODEL, sessionVars, gq, gqPrev, fb, cl>>

\* the user edits the job title entry
EditTitle ==
    /\ main = "idle"
    /\ \E t \in JobEntries : t # job_entry /\ job_entry' = t
    /\ UNCHANGED <<engineVars, session, q_blocks, status_var, main, workers, afterQ>>

\* on_next_question once self.session exists: the rest of the handler
ServeNext(s) ==
    LET r == SessionNext(s)
    IN  /\ session' = r.s
        /\ q_blocks' = IF r.q = <<>> THEN q_blocks
                       ELSE Append(q_blocks, QuestionBlock(LabelIndex(r.q), LabelText(r.q)))

SessionStatus(job) == <<"Session for '">> \o job \o <<"' created">>

\* Next Question is clicked: ensure_session, then next_question.  With a
\* session, or with no backend to ask, the handler runs to its end; an
\* empty job title ends it with a warning
on_next_question ==
    /\ main = "idle"
    /\ session._index < MaxServed
    /\ IF session.live
       THEN ServeNext(session) /\ UNCHANGED status_var
       ELSE LET job == strip(job_entry)
            IN  IF job = <<>> THEN UNCHANGED <<session, q_blocks, status_var>>
                ELSE /\ MODEL = None
                     /\ ServeNext(NewSession(job, generate_questions(MODEL, job, Max(1, AppN), NoCall)))
                     /\ status_var' = SessionStatus(job)
    /\ UNCHANGED <<engineVars, job_entry, main, workers, afterQ>>

\* Next Question is clicked with no session and a backend: ensure_session
\* builds the InterviewSession here, on the main thread, and the request
\* of generate_questions goes out
on_next_question_request ==
    /\ main = "idle"
    /\ ~session.live /\ strip(job_entry) # <<>> /\ MODEL # None
    /\ main' = "generate_content"
    /\ UNCHANGED <<engineVars, job_entry, session, q_blocks, status_var, workers, afterQ>>

\* the backend answers that request: the handler goes on, or the parser
\* never returns and the main thread stays in it
on_next_question_answered ==
    /\ main = "generate_content"
    /\ \E b \in AppBehaviours(MODEL) :
          LET job == strip(job_entry)
              g == generate_questions(MODEL, job, Max(1, AppN), b)
          IN  IF g.status = "hang"
              THEN main' = "hung" /\ UNCHANGED <<session, q_blocks, status_var>>
              ELSE /\ main' = "idle"
                   /\ ServeNext(NewSession(job, g))
                   /\ status_var' = SessionStatus(job)
    /\ UNCHANGED <<engineVars, job_entry, workers, afterQ>>

\* ---------------------------------------------- blocks, threads, callbacks
\* b.destroy() reaches the threads and callbacks that hold the block: the
\* reference they keep is to a destroyed widget (block 0), and the Tcl
\* command of a callback already scheduled on it is deleted
OrphanWorkers(ws) ==
    [i \in 1..Len(ws) |-> IF ws[i].kind = "fb" THEN [ws[i] EXCEPT !.block = 0] ELSE ws[i]]

OrphanCallbacks(cs) ==
    [i \in 1..Len(cs) |->
        IF cs[i].kind = "show" /\ cs[i].block > 0
        THEN [cs[i] EXCEPT !.block = 0, !.deleted = TRUE] ELSE cs[i]]

\* Clear is clicked: clear_all()
clear_all ==
    /\ main = "idle"
    /\ session' = NoSess
    /\ workers' = OrphanWorkers(workers)
    /\ q_blocks' = <<>>
    /\ afterQ' = OrphanCallbacks(afterQ)
    /\ status_var' = <<"Cleared">>
    /\ UNCHANGED <<engineVars, job_entry, main>>

\* the blocks feedback can be asked on
FbBlocks == 1..Min(Len(q_blocks), MaxFbBlock)

\* the user types an answer in a block's answer box
TypeAnswer ==
    /\ main = "idle"
    /\ \E p \in FbBlocks, a \in TypedAnswers :
          /\ q_blocks[p].answer_box # a
          /\ q_blocks' = [q_blocks EXCEPT ![p].answer_box = a]
    /\ UNCHANGED <<engineVars, job_entry, session, status_var, main, workers, afterQ>>

\* Clear Answer is clicked in a block
clear_answer ==
    /\ main = "idle"
    /\ \E p \in FbBlocks :
          /\ q_blocks[p].answer_box # <<>> \/ q_blocks[p].feedback_area # <<>>
          /\ q_blocks' = [q_blocks EXCEPT ![p].answer_box = <<>>, ![p].feedback_area = <<>>]
    /\ UNCHANGED <<engineVars, job_entry, session, status_var, main, workers, afterQ>>

Pending == Len(workers) + Len(afterQ)

Thread(kind, block, q_text, answer, job) ==
    [kind |-> kind, block |-> block, q_text |-> q_text, answer |-> answer,
     job |-> job, hung |-> FALSE]

Callback(kind, block, answer, lines, questions) ==
    [kind |-> kind, block |-> block, deleted |-> FALSE, answer |-> answer,
     lines |-> lines, questions |-> questions]

\* Get Feedback is clicked in a block whose button is enabled: an empty
\* answer ends in a warning; else the button is disabled and task() starts
\* on a thread of its own
on_get_feedback ==
    /\ main = "idle"
    /\ Pending < MaxPending
    /\ \E p \in FbBlocks :
          LET answer == strip(q_blocks[p].answer_box)
          IN  /\ q_blocks[p].fb_btn = "normal"
              /\ IF answer = <<>> THEN UNCHANGED <<q_blocks, workers>>
                 ELSE /\ q_blocks' = [q_blocks EXCEPT ![p].fb_btn = "disabled"]
                      /\ workers' = Append(workers, Thread("fb", p, q_blocks[p].q_text, answer, <<>>))
    /\ UNCHANGED <<engineVars, job_entry, session, status_var, main, afterQ>>

\* a.split("."), for the texts that reach it
AtomPieces(a) ==
    CASE a = "." -> << <<>>, <<>> >>
      [] a = "API key not valid." -> << <<"API key not valid">>, <<>> >>
      [] a = "Describe a project you led." -> << <<"Describe a project you led">>, <<>> >>
      [] a = "No feedback returned. Try again." ->
             << <<"No feedback returned">>, <<" ", "Try again">>, <<>> >>
      [] OTHER -> << <<a>> >>

\* line.split(".")
RECURSIVE SplitDot(_)
SplitDot(line) ==
    IF line = <<>> THEN << <<>> >>
    ELSE LET sofar == SplitDot(SubSeq(line, 1, Len(line) - 1))
             ps == AtomPieces(line[Len(line)])
             k == Len(sofar)
         IN  SubSeq(sofar, 1, k - 1) \o << sofar[k] \o ps[1] >> \o SubSeq(ps, 2, Len(ps))

\* lines 135-146: the lines of the feedback, a one-line paragraph split
\* into its sentences
FeedbackLines(fb_text) ==
    LET lines == StrippedLines(fb_text)
    IN  IF Len(lines) = 1 /\ Len(SplitDot(lines[1])) > 1
        THEN LET ps == SplitDot(lines[1])
             IN  SelectSeq([i \in 1..Len(ps) |-> strip(ps[i])], NonEmpty)
        ELSE lines

Without(s, i) == SubSeq(s, 1, i - 1) \o SubSeq(s, i + 1, Len(s))

\* task() of on_get_feedback, on its worker thread: the backend is asked,
\* the lines are cut, and _show_feedback is scheduled on the block
feedback_task ==
    \E i \in 1..Len(workers) :
        LET w == workers[i]
        IN  /\ w.kind = "fb"
            /\ \E b \in AppBehaviours(MODEL) :
                  afterQ' = Append(afterQ,
                      Callback("show", w.block, w.answer,
                               FeedbackLines(get_feedback_on_answer(MODEL, w.q_text, w.answer, b)), <<>>))
            /\ workers' = Without(workers, i)
            /\ UNCHANGED <<engineVars, job_entry, session, q_blocks, status_var, main>>

\* Get All Questions is clicked: an empty job title ends in a warning; else
\* task() starts on a thread of its own
on_get_all_questions ==
    /\ main = "idle"
    /\ Pending < MaxPending
    /\ LET job == strip(job_entry)
       IN  IF job = <<>> THEN UNCHANGED <<status_var, workers>>
           ELSE /\ status_var' = <<"Generating questions...">>
                /\ workers' = Append(workers, Thread("gen", 0, <<>>, <<>>, job))
    /\ UNCHANGED <<engineVars, job_entry, session, q_blocks, main, afterQ>>

\* task() of on_get_all_questions, on its worker thread: the questions are
\* generated and _populate_all_questions is scheduled on the window; or the
\* parser never returns and the thread stays in it
questions_task ==
    \E i \in 1..Len(workers) :
        LET w == workers[i]
        IN  /\ w.kind = "gen" /\ ~w.hung
            /\ \E b \in AppBehaviours(MODEL) :
                  LET g == generate_questions(MODEL, w.job, AppN, b)
                  IN  IF g.status = "hang"
                      THEN workers' = [workers EXCEPT ![i].hung = TRUE] /\ UNCHANGED afterQ
                      ELSE /\ workers' = Without(workers, i)
                           /\ afterQ' = Append(afterQ, Callback("populate", 0, <<>>, <<>>, g.val))
            /\ UNCHANGED <<engineVars, job_entry, session, q_blocks, status_var, main>>

\* what _show_feedback writes in the feedback area
RECURSIVE Numbered(_, _)
Numbered(lines, i) ==
    IF i > Len(lines) THEN <<>>
    ELSE <<ToString(i), ")", " ">> \o lines[i] \o <<"\n">> \o Numbered(lines, i + 1)

Shown(answer, lines) ==
    <<"Your Answer:", "\n">> \o strip(answer) \o <<"\n", "\n">>
        \o <<"Feedback (step-by-step):", "\n">> \o Numbered(lines, 1)

\* the main loop runs the callback scheduled first: _show_feedback(answer,
\* lines) of a block.  On a destroyed block its first statement raises
\* TclError, which the main loop reports
_show_feedback ==
    /\ main = "idle" /\ afterQ # <<>>
    /\ LET c == Head(afterQ)
       IN  /\ c.kind = "show" /\ ~c.deleted
           /\ IF c.block = 0
              THEN UNCHANGED q_blocks
              ELSE q_blocks' = [q_blocks EXCEPT ![c.block].feedback_area = Shown(c.answer, c.lines),
                                                ![c.block].fb_btn = "normal"]
    /\ afterQ' = Tail(afterQ)
    /\ UNCHANGED <<engineVars, job_entry, session, status_var, main, workers>>

\* the callback scheduled first was scheduled on a block destroyed since:
\* its Tcl command is gone, the timer reports it, nothing is called
callback_deleted ==
    /\ main = "idle" /\ afterQ # <<>>
    /\ Head(afterQ).deleted
    /\ afterQ' = Tail(afterQ)
    /\ UNCHANGED <<engineVars, job_entry, session, q_blocks, status_var, main, workers>>

\* the main loop runs the callback scheduled first:
\* _populate_all_questions(questions)
_populate_all_questions ==
    /\ main = "idle" /\ afterQ # <<>>
    /\ LET c == Head(afterQ)
       IN  /\ c.kind = "populate"
           /\ session' = NoSess
           /\ workers' = OrphanWorkers(workers)
           /\ afterQ' = OrphanCallbacks(Tail(afterQ))
           /\ q_blocks' = [i \in 1..Len(c.questions) |-> QuestionBlock(i, c.questions[i])]
           /\ status_var' = <<ToString(Len(c.questions)), " questions loaded">>
    /\ UNCHANGED <<engineVars, job_entry, main>>

NextApp ==
    \/ EditTitle \/ on_next_question \/ on_next_question_request
    \/ on_next_question_answered \/ clear_all \/ TypeAnswer \/ clear_answer
    \/ on_get_feedback \/ feedback_task \/ on_get_all_questions \/ questions_task
    \/ _show_feedback \/ callback_deleted \/ _populate_all_questions

SpecApp == InitApp /\ [][NextApp]_vars

\* ================================================================ properties
\* the next_question() call that returned a question most recently
LastQuestion(rs) ==
    rs[CHOOSE i \in 1..Len(rs) :
           rs[i].kind = "str" /\ \A j \in (i + 1)..Len(rs) : rs[j].kind # "str"]

\* C1: after any sequence of next_question(), peek_current(), has_next(),
\* reset() and all_questions() calls the cursor is in 0..len(questions), and
\* no call has raised an error, a call past the end included.
C1_CursorInRange ==
    /\ 0 <= _index /\ _index <= Len(_questions)
    /\ exc = None /\ ret.kind # "raise"

\* next_question() was called MaxPastEnd times on an exhausted session
C1_Witness ==
    /\ op = "next_question" /\ before = Len(_questions)
    /\ Len(results) = Len(_questions) + MaxPastEnd
    /\ ret.kind = "None"

\* C2: next_question() on an exhausted session (cursor = len) returns None
\* and leaves the cursor; with the cursor at c < len it returns
\* "Question c+1: " followed by questions[c] and leaves the cursor at c+1.
C2_NextQuestion ==
    [][op' = "next_question" =>
         IF _index = Len(_questions)
         THEN ret'.kind = "None" /\ _index' = _index
         ELSE /\ _index < Len(_questions)
              /\ ret'.kind = "str"
              /\ ret'.val = <<"Question ", ToString(_index + 1), ": ">> \o _questions[_index + 1]
              /\ _index' = _index + 1]_vars

\* the third question of a session of three was returned, then None
C2_Witness ==
    /\ op = "next_question" /\ ret.kind = "None" /\ before = 3 /\ _index = 3
    /\ Len(results) = 4 /\ results[3].kind = "str"
    /\ results[3].val = <<"Question ", "3", ": ">> \o _questions[3]

\* what C3 says of a session created with n_questions = N: the i-th
\* next_question() call, i <= N, returns "Question i: ..." and these are
\* distinct, every later call returns None, has_next() is cursor < N
SequenceOf(N) ==
    /\ \A i \in 1..Len(results) :
           IF i <= N
           THEN /\ results[i].kind = "str"
                /\ i <= Len(_questions)
                /\ results[i].val = Label(i, _questions[i])
           ELSE results[i].kind = "None"
    /\ \A i, j \in 1..Min(N, Len(results)) : i # j => results[i] # results[j]
    /\ op = "has_next" => ret.val = (_index < N)

\* C3 as stated, for every session made with a job title, whatever its
\* n_questions.
C3_AsStated == job_title # <<>> => SequenceOf(n_questions)

\* C3, amended: for a session created with a non-empty job title and
\* n_questions = N, 1 <= N <= 10, the list has N questions, the i-th
\* next_question() call returns "Question i: ..." for i = 1..N, all distinct,
\* every later call returns None, and has_next() is cursor < N.
C3_Sequence ==
    (job_title # <<>> /\ n_questions <= 10) =>
        (Len(_questions) = n_questions /\ SequenceOf(n_questions))

\* five questions were returned by a backend-made session, the sixth call
\* returned None and has_next() then said no
C3_Witness ==
    /\ MODEL # None /\ job_title # <<>> /\ n_questions = 5
    /\ Len(results) = 6 /\ results[5].kind = "str" /\ results[6].kind = "None"
    /\ op = "has_next" /\ ret.val = FALSE

\* C4: peek_current() leaves the cursor; it returns None exactly when
\* next_question() has not been called since the session was made or last
\* reset, and otherwise the string of the most recent next_question() call
\* that returned a question.
C4_PeekCurrent ==
    /\ [](op = "peek_current" =>
            /\ ret.kind = "None" <=> results = <<>>
            /\ results # <<>> => ret = LastQuestion(results))
    /\ [][op' = "peek_current" => _index' = _index]_vars

\* peek_current() after a next_question() call that returned None
C4_Witness ==
    /\ op = "peek_current" /\ ret.kind = "str"
    /\ Len(results) > Len(_questions) /\ results[Len(results)].kind = "None"
    /\ ret = results[Len(_questions)]

\* C5: reset() sets the cursor to 0 and leaves the list; the next_question()
\* call made with the cursor at 0 returns "Question 1: " and the first
\* question; only reset() leaves the exhausted state or lowers the cursor.
C5_Reset ==
    [][/\ op' = "reset" => _index' = 0 /\ _questions' = _questions
       /\ (_index = 0 /\ op' = "next_question") =>
              ret' = Str(<<"Question ", "1", ": ">> \o _questions[1])
       /\ (_index' < _index \/ (_index = Len(_questions) /\ _index' # _index)) =>
              op' = "reset"]_vars

\* reset() was called on an exhausted session
C5_Witness ==
    op = "reset" /\ before = Len(_questions) /\ before > 1 /\ _index = 0

\* the first n entries of the fallback list, for 0 <= n <= 10
FirstFallback(n) == [i \in 1..n |-> FALLBACK_QUESTIONS[i]]

\* C6: with MODEL None, a non-empty title and 1 <= N <= 10,
\* generate_questions(title, N) returns the first N fallback entries in their
\* order: at most N entries, none empty, whatever the title, the same on a
\* second call with the same N; a session for "Data Scientist" with
\* n_questions = 3 holds the first 3 fallback entries.
C6_FallbackPath ==
    (gq.called /\ MODEL = None /\ gq.title # <<>> /\ 1 <= gq.n /\ gq.n <= 10) =>
        /\ gq.out.status = "return"
        /\ gq.out.val = FirstFallback(gq.n)
        /\ Len(gq.out.val) <= gq.n
        /\ \A i \in 1..Len(gq.out.val) : gq.out.val[i] # <<>>
        /\ (gqPrev.called /\ gqPrev.title # <<>>) => gqPrev.out = gq.out
        /\ (gq.title = <<"Data Scientist">> /\ gq.n = 3) =>
               /\ SessionQuestions(MODEL, gq.title, gq.n, gq.b).val = gq.out.val
               /\ gq.out.val = << <<"Why should we hire you?">>,
                                  <<"Tell me about yourself.">>,
                                  <<"What are your strengths?">> >>

\* two calls with n = 3 and different titles, no backend configured
C6_Witness ==
    /\ MODEL = None /\ gq.called /\ gqPrev.called
    /\ gq.title = <<"Data Scientist">> /\ gqPrev.title = <<"Backend Engineer">>
    /\ gq.n = 3 /\ Len(gq.out.val) = 3

\* the cleaned lines of the backend answer b
UsableLines(b) == _clean_list_from_text(strip(IF b.kind = "none" THEN <<>> ELSE b.text))

\* the fallback entries, by position, that are not among lines
FreshFallback(lines) == {m \in 1..Len(FALLBACK_QUESTIONS) : ~In(FALLBACK_QUESTIONS[m], lines)}

\* the j-th of them
NthFresh(lines, j) ==
    CHOOSE m \in FreshFallback(lines) :
        Cardinality({x \in FreshFallback(lines) : x < m}) = j - 1

\* C7: when the backend answer cleans to k < N lines, the result is those k
\* lines in their order, then the fallback entries that are not among them,
\* in fallback order, until N entries or the end of the fallback list: its
\* length is min(N, k + the number of such entries), never more than N.
C7_Padding ==
    (/\ gq.called /\ MODEL # None /\ gq.title # <<>> /\ gq.b.kind \in {"text", "none"}
     /\ UsableLines(gq.b).status = "return"
     /\ Len(UsableLines(gq.b).val) < gq.n) =>
        LET lines == UsableLines(gq.b).val
            k == Len(lines)
            res == gq.out.val
        IN  /\ gq.out.status = "return"
            /\ Len(res) = Min(gq.n, k + Cardinality(FreshFallback(lines)))
            /\ Len(res) <= gq.n
            /\ \A i \in 1..Len(res) :
                   IF i <= k THEN res[i] = lines[i]
                   ELSE res[i] = FALLBACK_QUESTIONS[NthFresh(lines, i - k)]

\* the answer held a fallback question and one of its own; the fallback list
\* ran out before N = 12 entries, the duplicate skipped
C7_Witness ==
    /\ gq.called /\ MODEL # None /\ gq.title # <<>> /\ gq.b.kind = "text" /\ gq.n = 12
    /\ UsableLines(gq.b).status = "return"
    /\ UsableLines(gq.b).val = << <<"Describe a project you led.">>, <<"Why should we hire you?">> >>
    /\ Len(gq.out.val) = 11
    /\ gq.out.val[3] = <<"Tell me about yourself.">>

\* C8: when the backend call raises, generate_questions returns (nothing is
\* raised further): first "Error generating questions: <error>", then the
\* first N-1 fallback questions in order; N entries for 1 <= N <= 11.
C8_BackendError ==
    (gq.called /\ MODEL # None /\ gq.title # <<>> /\ gq.b.kind = "raise") =>
        /\ gq.out.status = "return"
        /\ Len(gq.out.val) >= 1
        /\ gq.out.val[1] = <<"Error generating questions: ">> \o gq.b.text
        /\ Tail(gq.out.val) = FirstFallback(Min(Len(FALLBACK_QUESTIONS), Max(0, gq.n - 1)))
        /\ (1 <= gq.n /\ gq.n <= 11) => Len(gq.out.val) = gq.n

\* the backend raised in a call for 11 questions
C8_Witness ==
    /\ gq.called /\ MODEL # None /\ gq.b.kind = "raise" /\ gq.n = 11
    /\ Len(gq.out.val) = 11
    /\ gq.out.val[11] = <<"Do you have any questions for us?">>

\* the lines of a feedback text are five, the i-th led by i
FiveNumbered(text) ==
    LET ls == splitlines(text)
    IN  /\ Len(ls) = 5
        /\ \A i \in 1..5 : ls[i] # <<>> /\ ls[i][1] = ToString(i)

\* what C9 says of an answer whose length is measured as len
HeuristicOf(len) ==
    /\ len < 30 =>
           /\ fb.out = HeuristicFeedback(<<"a">>)
           /\ splitlines(fb.out)[1] = <<"1", ")", " ", "Score: 40/100">>
    /\ len >= 30 =>
           /\ fb.out = HeuristicFeedback([i \in 1..30 |-> "a"])
           /\ splitlines(fb.out)[1] = <<"1", ")", " ", "Score: 75/100">>
    /\ FiveNumbered(fb.out)

\* C9 as stated, for every answer that is not blank: the block is chosen by
\* the length of the answer.
C9_AsStated ==
    (fb.called /\ MODEL = None /\ strip(fb.answer) # <<>>) => HeuristicOf(Len(fb.answer))

\* C9, amended: with MODEL None, for an answer that is not blank, the result
\* depends only on the length of the answer with the whitespace around it
\* stripped: under 30 the fixed block that starts "1) Score: 40/100", from 30
\* on the one that starts "1) Score: 75/100"; five lines, the i-th led by i.
C9_Heuristic ==
    (fb.called /\ MODEL = None /\ strip(fb.answer) # <<>>) =>
        HeuristicOf(Len(strip(fb.answer)))

\* an answer of 30 characters or more, under 30 without the blanks around it
C9_Witness ==
    /\ fb.called /\ MODEL = None
    /\ Len(fb.answer) >= 30 /\ Len(strip(fb.answer)) = 29
    /\ splitlines(fb.out)[1] = <<"1", ")", " ", "Score: 40/100">>

\* the characters C10 calls enumeration markers
MarkerChars == AsciiDigits \cup NonAsciiDigits \cup Whitespace \cup {".", ")", "-", "*"}

\* the list C10 describes: of each line that is not blank, what follows its
\* leading marker characters (the blanks at its end dropped too), when
\* anything does
ClaimedList(text) ==
    LET ls == splitlines(text)
        es == [i \in 1..Len(ls) |-> strip(lstrip(ls[i], MarkerChars))]
    IN  SelectSeq(es, NonEmpty)

\* C10: the parser returns, for every text, one entry for each line that
\* has more than marker characters, in order, the entry being the line
\* without its leading marker characters; no entry is empty or begins with a
\* marker character.
C10_AsStated ==
    /\ (cl.called /\ cl.out.status = "running") =>
           _clean_list_from_text(cl.text).status = "return"
    /\ (cl.called /\ cl.out.status = "return") =>
           /\ cl.out.val = ClaimedList(cl.text)
           /\ \A i \in 1..Len(cl.out.val) :
                  cl.out.val[i] # <<>> /\ cl.out.val[i][1] \notin MarkerChars

\* a step in which Next Question serves a question: only on_next_question
\* makes a session or moves its cursor
Served == session'.live /\ session' # session

\* C11: every question Next Question serves comes from a session created for
\* the job title the entry holds at the click, so that after the title was
\* changed none is served from the session of the previous title
C11_AsStated ==
    [][(Served /\ strip(job_entry) # <<>>) => session'.job_title = strip(job_entry)]_vars

\* the threads inside generate_questions or get_feedback_on_answer, the
\* calls that ask the backend
EngineCallThreads ==
    (IF main \in {"generate_content", "hung"} THEN {"main"} ELSE {})
        \cup (IF workers # <<>> THEN {"worker"} ELSE {})

\* C12: a call that can ask the backend runs on a worker thread, never on
\* the main thread, which then is never kept waiting for the backend
C12_AsStated == EngineCallThreads \subseteq {"worker"}

\* the button of a block stays disabled from Get Feedback until the result
\* is shown
InFlightDisabled ==
    /\ \A i \in 1..Len(workers) :
          (workers[i].kind = "fb" /\ workers[i].block > 0)
              => q_blocks[workers[i].block].fb_btn = "disabled"
    /\ \A i \in 1..Len(afterQ) :
          (afterQ[i].kind = "show" /\ afterQ[i].block > 0)
              => q_blocks[afterQ[i].block].fb_btn = "disabled"

\* C13: a feedback result is scheduled on, and delivered to, the block it
\* was asked in and that block still exists; until then its button is
\* disabled
C13_AsStated ==
    /\ InFlightDisabled
    /\ \A i \in 1..Len(afterQ) : afterQ[i].kind = "show" => afterQ[i].block > 0
====
